---- MODULE Spec2Model ----
(***************************************************************************)
(* Model of gradio/components/highlighted_textbox.py: the HighlightedTextbox *)
(* component's postprocess (dictionary expansion and merge of adjacent      *)
(* segments) and its token interpretation helpers (tokenize,                *)
(* get_interpretation_scores).                                              *)
(*                                                                          *)
(* A Python str is a sequence of one-character strings, a (text, category)  *)
(* tuple is the pair <<text, category>>, Python's None category is the      *)
(* value None, and a list is a sequence.                                    *)
(***************************************************************************)
EXTENDS Integers, Sequences, FiniteSets, TLC

VARIABLES combine_adjacent, adjacent_separator,
          interpretation_separator, interpretation_replacement,
          call, ret

vars == <<combine_adjacent, adjacent_separator,
          interpretation_separator, interpretation_replacement, call, ret>>

-----------------------------------------------------------------------------
(* Bounds of the model and the small sets the inputs are drawn from.        *)

MaxTextLen == 3
MaxHighlights == 2
MaxSegments == 4
MaxInputLen == 5
MaxTokens == 2

None == "None"

Alphabet == <<"a", "b", "c", "d", "e", "f">>
Labels == {"A", "B"}
Categories == Labels \cup {None}
HighlightTypes == {"A", None}
SegmentTexts == {<<>>, <<"a">>, <<"b">>}
AdjacentSeparators == {<<>>, <<"-">>}
InputChars == {"a", "b", " "}
InterpSeparators == {<<" ">>, <<"a", "a">>}
ReplacementStrings == {<<>>, <<"X">>, <<" ">>, <<"a">>}
TokenStrings == {<<"a">>, <<"b">>}
Scores == {1, 2}

SeqsUpTo(S, n) == UNION {[1..k -> S] : k \in 0..n}

Min(a, b) == IF a < b THEN a ELSE b
Max(a, b) == IF a > b THEN a ELSE b

-----------------------------------------------------------------------------
(* Python built-ins the component relies on.                                *)

\* s[i:j] of a Python sequence: negative indices count from the end and
\* both ends are clamped into 0..len(s); an empty or reversed range is "".
Slice(s, i, j) ==
    LET n  == Len(s)
        lo == IF i < 0 THEN Max(i + n, 0) ELSE Min(i, n)
        hi == IF j < 0 THEN Max(j + n, 0) ELSE Min(j, n)
    IN  IF lo < hi THEN SubSeq(s, lo + 1, hi) ELSE <<>>

\* s[i:]
SliceFrom(s, i) == Slice(s, i, Len(s))

\* sorted(highlights, key=start) is stable: an entity goes after every
\* entity already placed whose start is not greater than its own.
InsertByStartUnstable(sorted, e) ==
    LET before == {k \in 1..Len(sorted) : sorted[k].start < e.start}
        n == Cardinality(before)
    IN  SubSeq(sorted, 1, n) \o <<e>> \o SubSeq(sorted, n + 1, Len(sorted))

InsertByStart(sorted, e) ==
    LET before == {k \in 1..Len(sorted) : sorted[k].start <= e.start}
        n == Cardinality(before)
    IN  SubSeq(sorted, 1, n) \o <<e>> \o SubSeq(sorted, n + 1, Len(sorted))

RECURSIVE SortedByStart(_)
SortedByStart(hs) ==
    IF hs = <<>> THEN <<>>
    ELSE InsertByStart(SortedByStart(SubSeq(hs, 1, Len(hs) - 1)), hs[Len(hs)])

-----------------------------------------------------------------------------
(* postprocess: expansion of a dictionary into a list of segments.          *)

\* One iteration of the loop over the sorted entities: the gap before the
\* entity, the entity's own text with its highlight_type, and the cursor.
ExpandEntity(text, st, entity) ==
    [list_format |-> st.list_format
                     \o <<  <<Slice(text, st.index, entity.start), None>>,
                            <<Slice(text, entity.start, entity.end),
                              entity.highlight_type>>  >>,
     index |-> entity.end]

RECURSIVE ExpandEntities(_, _, _)
ExpandEntities(text, st, entities) ==
    IF entities = <<>> THEN st
    ELSE ExpandEntities(text, ExpandEntity(text, st, Head(entities)),
                        Tail(entities))

\* The else branch of len(highlights) == 0.
ListFormat(text, highlights) ==
    LET st == ExpandEntities(text, [list_format |-> <<>>, index |-> 0],
                             SortedByStart(highlights))
    IN  st.list_format \o << <<SliceFrom(text, st.index), None>> >>

\* The keys whose lookup in the try block can raise KeyError.
MissingKeysLenient(y) == {"text"} \ y.keys

MissingKeys(y) == {"text", "highlights"} \ y.keys

ValueErrorResult ==
    [status |-> "error", error |-> "ValueError",
     names |-> {"text", "highlights"}, segs |-> <<>>]

\* isinstance(y, dict) branch: the ValueError, or y rebound to a list.
DictToList(y) ==
    IF MissingKeys(y) # {} THEN ValueErrorResult
    ELSE IF Len(y.highlights) = 0
         THEN [status |-> "ok", segs |-> << <<y.text, None>> >>]
         ELSE [status |-> "ok", segs |-> ListFormat(y.text, y.highlights)]

-----------------------------------------------------------------------------
(* postprocess: the merge pass run when combine_adjacent is set.            *)

\* The state of the merge loop: running_text is None until the first item
\* (running_set), then the running text and category, and the output list.
MergeStart ==
    [running_set |-> FALSE, running_text |-> <<>>, running_category |-> None,
     output |-> <<>>]

\* One iteration of "for text, category in y".
MergeItemKeepCategory(st, item, sep) ==
    LET text == item[1]
        category == item[2]
    IN  IF ~st.running_set
        THEN [st EXCEPT !.running_set = TRUE, !.running_text = text,
                        !.running_category = category]
        ELSE IF category = st.running_category
        THEN [st EXCEPT !.running_text = st.running_text \o sep \o text]
        ELSE IF text = <<>>
        THEN st
        ELSE [st EXCEPT !.output = Append(st.output,
                                     <<st.running_text, st.running_category>>),
                        !.running_text = text]

MergeItemNoSkip(st, item, sep) ==
    LET text == item[1]
        category == item[2]
    IN  IF ~st.running_set
        THEN [st EXCEPT !.running_set = TRUE, !.running_text = text,
                        !.running_category = category]
        ELSE IF category = st.running_category
        THEN [st EXCEPT !.running_text = st.running_text \o sep \o text]
        ELSE [st EXCEPT !.output = Append(st.output,
                                     <<st.running_text, st.running_category>>),
                        !.running_text = text,
                        !.running_category = category]

MergeItem(st, item, sep) ==
    LET text == item[1]
        category == item[2]
    IN  IF ~st.running_set
        THEN [st EXCEPT !.running_set = TRUE, !.running_text = text,
                        !.running_category = category]
        ELSE IF category = st.running_category
        THEN [st EXCEPT !.running_text = st.running_text \o sep \o text]
        ELSE IF text = <<>>
        THEN st
        ELSE [st EXCEPT !.output = Append(st.output,
                                     <<st.running_text, st.running_category>>),
                        !.running_text = text,
                        !.running_category = category]

RECURSIVE MergeItems(_, _, _)
MergeItems(st, y, sep) ==
    IF y = <<>> THEN st
    ELSE MergeItems(MergeItem(st, Head(y), sep), Tail(y), sep)

\* The loop followed by the flush of the last running item.
CombineAdjacent(y, sep) ==
    LET st == MergeItems(MergeStart, y, sep)
    IN  IF st.running_set
        THEN Append(st.output, <<st.running_text, st.running_category>>)
        ELSE st.output

NoneResult == [status |-> "none", segs |-> <<>>]

\* postprocess(y) of a component built with the given combine_adjacent
\* and adjacent_separator.
postprocess(y, combine, sep) ==
    IF y.kind = "none" THEN NoneResult
    ELSE LET l == IF y.kind = "dict" THEN DictToList(y)
                  ELSE [status |-> "ok", segs |-> y.segs]
         IN  IF l.status = "error" THEN l
             ELSE IF combine
                  THEN [status |-> "ok", segs |-> CombineAdjacent(l.segs, sep)]
                  ELSE [status |-> "ok", segs |-> l.segs]

-----------------------------------------------------------------------------
(* Token interpretation: tokenize and get_interpretation_scores.            *)

\* An instance attribute that only set_interpret_parameters assigns: <<>>
\* while the instance has no such attribute, <<v>> once it holds v.
Unset == <<>>
SetTo(v) == <<v>>
IsSet(attr) == attr # Unset
ValueOf(attr) == attr[1]

\* Reading self.interpretation_separator on an instance without it.
AttributeErrorResult ==
    [status |-> "error", error |-> "AttributeError", names |-> {},
     segs |-> <<>>]

\* The least position at which sep occurs in s, or 0 when it does not.
Find(s, sep) ==
    LET occ == {p \in 1..(Len(s) - Len(sep) + 1) :
                    SubSeq(s, p, p + Len(sep) - 1) = sep}
    IN  IF occ = {} THEN 0 ELSE CHOOSE p \in occ : \A q \in occ : p <= q

\* str.split(sep) for a non-empty sep: cut at each occurrence of sep found
\* scanning from the left; consecutive separators give empty tokens.
RECURSIVE Split(_, _)
Split(s, sep) ==
    LET p == Find(s, sep)
    IN  IF p = 0 THEN <<s>>
        ELSE <<SubSeq(s, 1, p - 1)>>
             \o Split(SubSeq(s, p + Len(sep), Len(s)), sep)

\* sep.join(parts)
RECURSIVE JoinFrom(_, _, _)
JoinFrom(sep, parts, k) ==
    IF k > Len(parts) THEN <<>>
    ELSE IF k = Len(parts) THEN parts[k]
    ELSE parts[k] \o sep \o JoinFrom(sep, parts, k + 1)

Join(sep, parts) == JoinFrom(sep, parts, 1)

\* The body of the loop of tokenize for one index (1-based here): a copy
\* of the tokens with the token popped, or overwritten by the replacement.
LeaveOneOutSetBlank(tokens, index, replacement) ==
    [tokens EXCEPT ![index] = replacement.str]

LeaveOneOutSetPopLast(tokens, index, replacement) ==
    IF replacement.is_none
    THEN SubSeq(tokens, 1, Len(tokens) - 1)
    ELSE [tokens EXCEPT ![index] = replacement.str]

LeaveOneOutSet(tokens, index, replacement) ==
    IF replacement.is_none
    THEN SubSeq(tokens, 1, index - 1) \o SubSeq(tokens, index + 1, Len(tokens))
    ELSE [tokens EXCEPT ![index] = replacement.str]

\* tokenize(x) on an instance whose interpretation_separator and
\* interpretation_replacement attributes are as given.
tokenize(x, separator, replacement) ==
    IF ~IsSet(separator) THEN AttributeErrorResult
    ELSE LET sep == ValueOf(separator)
             tokens == Split(x, sep)
         IN  [status |-> "ok", tokens |-> tokens, context |-> None,
              leave_one_out_strings |->
                  [index \in 1..Len(tokens) |->
                      Join(sep, LeaveOneOutSet(tokens, index,
                                               ValueOf(replacement)))]]

\* The body of the loop of get_interpretation_scores.
ScoreItemNoSeparator(result, token, score, sep) ==
    Append(result, <<token, score>>)

ScoreItem(result, token, score, sep) ==
    Append(Append(result, <<token, score>>), <<sep, 0>>)

\* zip(tokens, scores) stops at the end of the shorter list.
RECURSIVE ScoreItems(_, _, _, _, _)
ScoreItems(result, tokens, scores, k, sep) ==
    IF k > Len(tokens) \/ k > Len(scores) THEN result
    ELSE ScoreItems(ScoreItem(result, tokens[k], scores[k], sep),
                    tokens, scores, k + 1, sep)

\* The separator attribute is read in the body of the loop only, so an
\* instance without it raises only when zip yields a pair.
get_interpretation_scores(tokens, scores, separator) ==
    IF ~IsSet(separator)
    THEN IF Len(tokens) >= 1 /\ Len(scores) >= 1
         THEN AttributeErrorResult
         ELSE [status |-> "ok", segs |-> <<>>]
    ELSE [status |-> "ok",
          segs |-> ScoreItems(<<>>, tokens, scores, 1, ValueOf(separator))]

-----------------------------------------------------------------------------
(* The values postprocess is called with.                                   *)

Texts == {SubSeq(Alphabet, 1, k) : k \in 0..MaxTextLen}

\* Highlights whose offsets lie inside a text of length n.  A highlight
\* without the highlight_type key reads as None through entity.get.
Spans(n) == [start : 0..n, end : 0..n, highlight_type : HighlightTypes]

NoneInput ==
    [kind |-> "none", keys |-> {}, text |-> <<>>, highlights |-> <<>>,
     segs |-> <<>>]

\* A dictionary with the given keys; an absent key has no value and its
\* field is left empty.
DictInput(keys, t, hs) ==
    [kind |-> "dict", keys |-> keys,
     text |-> IF "text" \in keys THEN t ELSE <<>>,
     highlights |-> IF "highlights" \in keys THEN hs ELSE <<>>,
     segs |-> <<>>]

ListInput(l) ==
    [kind |-> "list", keys |-> {}, text |-> <<>>, highlights |-> <<>>,
     segs |-> l]

Segments == SegmentTexts \X Categories

-----------------------------------------------------------------------------
(* The component as a state machine.  The methods are functions of their    *)
(* argument and of the attributes set by __init__ and                       *)
(* set_interpret_parameters, so a behaviour is the construction, at most    *)
(* one set_interpret_parameters, and one call whose argument and result     *)
(* are kept in call and ret.                                                *)

NoReplacement == [is_none |-> TRUE, str |-> <<>>]

\* __init__: the constructor's arguments.  The method assigns neither
\* interpretation attribute; they exist once set_interpret_parameters has
\* run (with its defaults " " and None, or with other arguments).
Init ==
    /\ combine_adjacent \in BOOLEAN
    /\ adjacent_separator \in AdjacentSeparators
    /\ interpretation_separator = Unset
    /\ interpretation_replacement = Unset
    /\ call = [op |-> "init"]
    /\ ret = NoneResult

PostprocessCall(y) ==
    /\ call' = [op |-> "postprocess", y |-> y]
    /\ ret' = postprocess(y, combine_adjacent, adjacent_separator)

\* postprocess(y) with y None, a dictionary (with both keys, or with a key
\* missing), or a list of (text, category) tuples.
Postprocess ==
    /\ call.op = "init"
    /\ \/ PostprocessCall(NoneInput)
       \/ \E t \in Texts, k \in 0..MaxHighlights :
            \E hs \in [1..k -> Spans(Len(t))] :
               PostprocessCall(DictInput({"text", "highlights"}, t, hs))
       \/ \E keys \in (SUBSET {"text", "highlights"}) \ {{"text", "highlights"}},
             t \in Texts, hs \in SeqsUpTo(Spans(1), 1) :
               PostprocessCall(DictInput(keys, t, hs))
       \/ \E k \in 0..MaxSegments :
            \E l \in [1..k -> Segments] : PostprocessCall(ListInput(l))
    /\ UNCHANGED <<combine_adjacent, adjacent_separator,
                   interpretation_separator, interpretation_replacement>>

Replacements ==
    {NoReplacement} \cup {[is_none |-> FALSE, str |-> r] : r \in ReplacementStrings}

\* set_interpret_parameters returns the instance.
SelfResult == [status |-> "self", segs |-> <<>>]

\* set_interpret_parameters(separator, replacement)
SetInterpretParameters ==
    /\ call.op = "init"
    /\ \E sep \in InterpSeparators, replacement \in Replacements :
        /\ interpretation_separator' = SetTo(sep)
        /\ interpretation_replacement' = SetTo(replacement)
    /\ call' = [op |-> "set_interpret_parameters"]
    /\ ret' = SelfResult
    /\ UNCHANGED <<combine_adjacent, adjacent_separator>>

\* tokenize(x)
Tokenize ==
    /\ call.op \in {"init", "set_interpret_parameters"}
    /\ \E k \in 0..MaxInputLen :
         \E x \in [1..k -> InputChars] :
            /\ call' = [op |-> "tokenize", x |-> x]
            /\ ret' = tokenize(x, interpretation_separator,
                               interpretation_replacement)
    /\ UNCHANGED <<combine_adjacent, adjacent_separator,
                   interpretation_separator, interpretation_replacement>>

\* get_interpretation_scores(x, neighbors, scores, tokens)
GetInterpretationScores ==
    /\ call.op \in {"init", "set_interpret_parameters"}
    /\ \E tokens \in SeqsUpTo(TokenStrings, MaxTokens),
          scores \in SeqsUpTo(Scores, MaxTokens) :
            /\ call' = [op |-> "get_interpretation_scores",
                        tokens |-> tokens, scores |-> scores]
            /\ ret' = get_interpretation_scores(tokens, scores,
                                                interpretation_separator)
    /\ UNCHANGED <<combine_adjacent, adjacent_separator,
                   interpretation_separator, interpretation_replacement>>

NextPost == Postprocess

SpecPost == Init /\ [][NextPost]_vars

NextInterp == SetInterpretParameters \/ Tokenize \/ GetInterpretationScores

SpecInterp == Init /\ [][NextInterp]_vars

Next == Postprocess \/ SetInterpretParameters \/ Tokenize
        \/ GetInterpretationScores

Spec == Init /\ [][Next]_vars

-----------------------------------------------------------------------------
(* Vocabulary of the properties.                                            *)

IsPostprocess == call.op = "postprocess"

BothKeys(y) == y.kind = "dict" /\ y.keys = {"text", "highlights"}

\* The texts of a list of segments, concatenated in order.
RECURSIVE ConcatTexts(_)
ConcatTexts(segs) ==
    IF segs = <<>> THEN <<>> ELSE Head(segs)[1] \o ConcatTexts(Tail(segs))

CategoriesOf(segs) == [k \in 1..Len(segs) |-> segs[k][2]]

\* a is b with some elements left out.
RECURSIVE IsSubsequence(_, _)
IsSubsequence(a, b) ==
    IF a = <<>> THEN TRUE
    ELSE IF b = <<>> THEN FALSE
    ELSE IF Head(a) = Head(b) THEN IsSubsequence(Tail(a), Tail(b))
    ELSE IsSubsequence(a, Tail(b))

\* Highlights that lie inside the text, have start <= end, and of which no
\* two overlap: of any two, one ends where or before the other starts.
ValidSpans(y) ==
    /\ \A i \in 1..Len(y.highlights) :
          /\ 0 <= y.highlights[i].start
          /\ y.highlights[i].start <= y.highlights[i].end
          /\ y.highlights[i].end <= Len(y.text)
    /\ \A i, j \in 1..Len(y.highlights) :
          i # j => \/ y.highlights[i].end <= y.highlights[j].start
                   \/ y.highlights[j].end <= y.highlights[i].start

\* Highlights with one common label that tile the text in the order given.
TilingSpans(y) ==
    LET hs == y.highlights
        n == Len(hs)
    IN  /\ n >= 2
        /\ hs[1].start = 0
        /\ hs[n].end = Len(y.text)
        /\ \A i \in 1..n : hs[i].start < hs[i].end
        /\ \A i \in 1..(n - 1) : hs[i].end = hs[i + 1].start
        /\ \A i \in 1..n : hs[i].highlight_type = hs[1].highlight_type

\* The list the merge pass is run on: the list given, or the expansion of
\* the dictionary given.
Unmerged(y) == IF y.kind = "dict" THEN DictToList(y).segs ELSE y.segs

\* The place of the i-th highlight in ascending order of start, highlights
\* with the same start in the order given.
Rank(hs, i) ==
    1 + Cardinality({j \in 1..Len(hs) :
                        \/ hs[j].start < hs[i].start
                        \/ hs[j].start = hs[i].start /\ j < i})

\* text[s:e] for offsets inside the text.
TextRange(text, s, e) == IF s < e THEN SubSeq(text, s + 1, e) ELSE <<>>

\* The unmerged texts concatenated, with one separator put before each
\* segment that is joined to a running segment of the same category
\* (running is the category of the segment being accumulated).
RECURSIVE TextWithJoins(_, _, _, _)
TextWithJoins(segs, k, running, sep) ==
    IF k > Len(segs) THEN <<>>
    ELSE IF k = 1
    THEN segs[1][1] \o TextWithJoins(segs, 2, segs[1][2], sep)
    ELSE IF segs[k][2] = running
    THEN sep \o segs[k][1] \o TextWithJoins(segs, k + 1, running, sep)
    ELSE IF segs[k][1] = <<>>
    THEN TextWithJoins(segs, k + 1, running, sep)
    ELSE segs[k][1] \o TextWithJoins(segs, k + 1, segs[k][2], sep)

-----------------------------------------------------------------------------
(* Properties of postprocess.                                               *)

\* C1: for a dictionary whose highlights lie inside the text, have
\* start <= end and do not overlap, in any order, postprocess without
\* combine_adjacent returns segments whose texts concatenate to the text.
C1_RoundTrip ==
    (IsPostprocess /\ BothKeys(call.y) /\ ~combine_adjacent
        /\ ValidSpans(call.y))
    => (ret.status = "ok" /\ ConcatTexts(ret.segs) = call.y.text)

\* C2: for a dictionary whose highlights are adjacent spans of one label
\* tiling the whole text, postprocess with combine_adjacent and an empty
\* adjacent_separator returns exactly the one segment (text, label).
C2_TilingMergesToOneSegment ==
    (IsPostprocess /\ BothKeys(call.y) /\ combine_adjacent
        /\ adjacent_separator = <<>> /\ TilingSpans(call.y))
    => ret.segs = << <<call.y.text, call.y.highlights[1].highlight_type>> >>

\* C3: with combine_adjacent, postprocess applied to a list it returned
\* returns that list again.
C3_MergeIdempotent ==
    (IsPostprocess /\ combine_adjacent /\ ret.status = "ok")
    => postprocess(ListInput(ret.segs), TRUE, adjacent_separator) = ret

C3_Witness ==
    /\ IsPostprocess /\ combine_adjacent /\ call.y.kind = "list"
    /\ adjacent_separator # <<>>
    /\ Len(call.y.segs) = 3
    /\ Len(ret.segs) = 2
    /\ ret.segs[1][1] # call.y.segs[1][1]

\* C7: postprocess of a dictionary missing 'text' or 'highlights' ends in
\* a ValueError whose message names the missing keys and returns no list;
\* a dictionary with both keys and a list return a list; None returns None.
C7_ErrorOutcomes ==
    IsPostprocess =>
        /\ call.y.kind = "none" => ret.status = "none"
        /\ (call.y.kind = "dict" /\ ~BothKeys(call.y)) =>
              /\ ret.status = "error"
              /\ ret.error = "ValueError"
              /\ ({"text", "highlights"} \ call.y.keys) \subseteq ret.names
              /\ ret.segs = <<>>
        /\ BothKeys(call.y) => ret.status = "ok"
        /\ call.y.kind = "list" => ret.status = "ok"

C7_Witness ==
    /\ IsPostprocess /\ call.y.kind = "dict"
    /\ call.y.keys = {"text"}
    /\ call.y.text # <<>>
    /\ ret.status = "error"

\* C8: with combine_adjacent and an empty adjacent_separator the texts of
\* the returned segments concatenate to the concatenation of the unmerged
\* texts, which is the text of a dictionary with valid spans; with a
\* separator, one separator is added at each join of same-label segments.
C8_MergeKeepsText ==
    (IsPostprocess /\ combine_adjacent /\ ret.status = "ok")
    => /\ ConcatTexts(ret.segs)
            = TextWithJoins(Unmerged(call.y), 1, None, adjacent_separator)
       /\ adjacent_separator = <<>>
            => ConcatTexts(ret.segs) = ConcatTexts(Unmerged(call.y))
       /\ (adjacent_separator = <<>> /\ BothKeys(call.y)
             /\ ValidSpans(call.y))
            => ConcatTexts(ret.segs) = call.y.text

\* C9: for a dictionary with n >= 1 highlights postprocess without
\* combine_adjacent returns 2n+1 segments, None-labelled at the even
\* (0-based) positions, and at position 2k+1 the label and text[start:end]
\* of the k-th highlight by ascending start, equal starts in input order;
\* with no highlight it returns exactly [(text, None)].
C9_ExpansionShape ==
    (IsPostprocess /\ BothKeys(call.y) /\ ~combine_adjacent)
    => LET hs == call.y.highlights
           n == Len(hs)
           out == ret.segs
       IN  /\ ret.status = "ok"
           /\ n = 0 => out = << <<call.y.text, None>> >>
           /\ n >= 1 =>
                /\ Len(out) = 2 * n + 1
                /\ \A k \in 0..n : out[2 * k + 1][2] = None
                /\ \A i \in 1..n :
                      out[2 * Rank(hs, i)]
                        = <<TextRange(call.y.text, hs[i].start, hs[i].end),
                            hs[i].highlight_type>>

C9_Witness ==
    /\ IsPostprocess /\ BothKeys(call.y) /\ ~combine_adjacent
    /\ Len(call.y.highlights) = 2
    /\ call.y.highlights[1].start = call.y.highlights[2].start
    /\ call.y.highlights[1].highlight_type = "A"
    /\ call.y.highlights[2].highlight_type = None
    /\ call.y.highlights[1].end > call.y.highlights[2].end
    /\ Len(ret.segs) = 5
    /\ ret.segs[2][2] = "A"

\* C10: a list returned with combine_adjacent has no two consecutive
\* segments of equal category, no empty text after its first segment, its
\* categories in the order they have in the input, and is empty only when
\* the input is.
C10_MergedOutputInvariant ==
    (IsPostprocess /\ combine_adjacent /\ ret.status = "ok")
    => LET out == ret.segs
           in == Unmerged(call.y)
       IN  /\ \A i \in 1..(Len(out) - 1) : out[i][2] # out[i + 1][2]
           /\ \A i \in 2..Len(out) : out[i][1] # <<>>
           /\ IsSubsequence(CategoriesOf(out), CategoriesOf(in))
           /\ out = <<>> => in = <<>>

C10_Witness ==
    /\ IsPostprocess /\ combine_adjacent /\ call.y.kind = "list"
    /\ Len(call.y.segs) = 3
    /\ call.y.segs[1][2] = "A"
    /\ call.y.segs[2] = <<<<>>, "B">>
    /\ call.y.segs[3][2] = "A"
    /\ Len(ret.segs) = 1

-----------------------------------------------------------------------------
(* Properties of tokenize and get_interpretation_scores.                    *)

IsTokenize == call.op = "tokenize"

\* The interpretation parameters have been set, and their values.
ParametersSet == IsSet(interpretation_separator)
Separator == ValueOf(interpretation_separator)
Replacement == ValueOf(interpretation_replacement)

\* sep occurs in s at position p.
OccursAt(s, sep, p) ==
    /\ p >= 1
    /\ p + Len(sep) - 1 <= Len(s)
    /\ \A k \in 1..Len(sep) : s[p + k - 1] = sep[k]

\* tokens is x cut at the occurrences of sep met from the left: the
\* tokens joined by sep are x, sep occurs in no token, and sep does not
\* occur in a token followed by sep before the end of that token.
IsSplitOf(tokens, x, sep) ==
    LET n == Len(tokens)
    IN  /\ n >= 1
        /\ Join(sep, tokens) = x
        /\ \A p \in 1..Len(tokens[n]) : ~OccursAt(tokens[n], sep, p)
        /\ \A k \in 1..(n - 1) :
              \A p \in 1..Len(tokens[k]) : ~OccursAt(tokens[k] \o sep, sep, p)

\* The tokens without the i-th one, or with the i-th one replaced.
MaskedTokens(tokens, i, replacement) ==
    IF replacement.is_none
    THEN [j \in 1..(Len(tokens) - 1) |->
             IF j < i THEN tokens[j] ELSE tokens[j + 1]]
    ELSE [j \in 1..Len(tokens) |->
             IF j = i THEN replacement.str ELSE tokens[j]]

\* C4: tokenize returns x split on the separator, empty tokens kept, and
\* as many masked variants as tokens, variant i being the tokens with
\* token i removed (replacement None) or replaced, rejoined by the
\* separator with the other tokens in their order.
C4_Tokenize ==
    (IsTokenize /\ ParametersSet) =>
        LET tokens == ret.tokens
            variants == ret.leave_one_out_strings
        IN  /\ ret.status = "ok"
            /\ IsSplitOf(tokens, call.x, Separator)
            /\ Len(variants) = Len(tokens)
            /\ \A i \in 1..Len(tokens) :
                  variants[i]
                    = Join(Separator,
                           MaskedTokens(tokens, i, Replacement))

C4_Witness ==
    /\ IsTokenize /\ ParametersSet
    /\ call.x = <<"a", " ", "b", " ", "a">>
    /\ Separator = <<" ">>
    /\ Replacement.is_none
    /\ ret.tokens = << <<"a">>, <<"b">>, <<"a">> >>
    /\ ret.leave_one_out_strings
         = << <<"b", " ", "a">>, <<"a", " ", "a">>, <<"a", " ", "b">> >>

\* C5 as claimed: with replacement None every masked variant splits into
\* one token fewer than the original, with a replacement string into as
\* many tokens as the original.
C5_TokenCountAsClaimed ==
    (IsTokenize /\ ParametersSet) =>
        \A i \in 1..Len(ret.tokens) :
            Len(Split(ret.leave_one_out_strings[i], Separator))
              = IF Replacement.is_none
                THEN Len(ret.tokens) - 1
                ELSE Len(ret.tokens)

\* C5 as amended: with replacement None every masked variant of a text of
\* two or more tokens splits into one token fewer than the original, and
\* the one variant of a single-token text is the empty string, which
\* splits into one token like the original; with a replacement string the
\* variant splits into as many tokens as the original when the separator
\* is one character that does not occur in the replacement.
C5_TokenCount ==
    (IsTokenize /\ ParametersSet) =>
        LET sep == Separator
            n == Len(ret.tokens)
            count(i) == Len(Split(ret.leave_one_out_strings[i], sep))
        IN  /\ (Replacement.is_none /\ n >= 2)
                  => \A i \in 1..n : count(i) = n - 1
            /\ (Replacement.is_none /\ n = 1)
                  => ret.leave_one_out_strings = << <<>> >> /\ count(1) = 1
            /\ (~Replacement.is_none /\ Len(sep) = 1
                  /\ \A k \in 1..Len(Replacement.str) :
                        Replacement.str[k] # sep[1])
                  => \A i \in 1..n : count(i) = n

C5_Witness ==
    /\ IsTokenize /\ ParametersSet
    /\ Replacement.is_none
    /\ Separator = <<" ">>
    /\ Len(ret.tokens) = 3
    /\ ret.tokens[2] = <<>>
    /\ Len(Split(ret.leave_one_out_strings[2], Separator)) = 2

\* C6: get_interpretation_scores returns 2*min(len(tokens), len(scores))
\* segments, (tokens[k], scores[k]) followed by (separator, 0) for every k
\* below that minimum, the last token included, and never raises.
C6_InterleavedScores ==
    (call.op = "get_interpretation_scores" /\ ParametersSet) =>
        LET m == Min(Len(call.tokens), Len(call.scores))
        IN  /\ ret.status = "ok"
            /\ Len(ret.segs) = 2 * m
            /\ \A k \in 1..m :
                  /\ ret.segs[2 * k - 1] = <<call.tokens[k], call.scores[k]>>
                  /\ ret.segs[2 * k] = <<Separator, 0>>

C6_Witness ==
    /\ call.op = "get_interpretation_scores" /\ ParametersSet
    /\ Len(call.tokens) = 2
    /\ Len(call.scores) = 1
    /\ Len(ret.segs) = 2
    /\ ret.segs[2] = <<Separator, 0>>
    /\ Separator # <<" ">>

====
